---------------------------- MODULE Spec2Model ----------------------------
(***************************************************************************)
(* Phishing URL detection service: feature extraction (src/features.py),  *)
(* frame building and scoring (src/inference.py), protocol heuristic and  *)
(* the /predict handler (api/app.py).                                      *)
(*                                                                         *)
(* A URL is a sequence of one-character strings.  A probability is an      *)
(* integer number of units of 1/One, One = 10 * ProbDen: the classifier's  *)
(* score k/ProbDen is the integer 10*k, so that the products by 0.4 and    *)
(* by 1.3 are exact.  Binary floating-point representation error is not    *)
(* modelled.                                                               *)
(***************************************************************************)
EXTENDS Integers, Sequences, FiniteSets, TLC

VARIABLES
    model_present,    \* models/phishing_rf.pkl exists on disk
    cols_present,     \* models/feature_columns.pkl exists on disk
    cols_file,        \* the column list stored in feature_columns.pkl
    pc,               \* "boot", "model_loaded", "ready" or "failed"
    model_loads,      \* number of joblib.load(MODEL_PATH) calls made
    cols_loads,       \* number of joblib.load(FEATURE_COLS_PATH) calls made
    feature_columns,  \* inference.feature_columns once loaded
    startup_error,    \* the exception that ended module initialisation
    req,              \* the last /predict request and everything it computed
    arg,              \* input of a direct function call
    ret               \* what that call returned or raised

vars == <<model_present, cols_present, cols_file, pc, model_loads, cols_loads,
          feature_columns, startup_error, req, arg, ret>>

service_vars == <<model_present, cols_present, cols_file, pc, model_loads,
                  cols_loads, feature_columns, startup_error, req>>

-----------------------------------------------------------------------------
(* Bounds *)

MaxBody == 4      \* length of the generated part of a URL
MaxCols == 3      \* length of a stored column list
ProbDen == 25000  \* classifier scores are k / ProbDen, k in 0..ProbDen
ProbSteps == 4    \* the service specification scores on a grid of ProbSteps steps

-----------------------------------------------------------------------------
(* Characters and URL strings *)

UpperLetters ==
    <<"A","B","C","D","E","F","G","H","I","J","K","L","M",
      "N","O","P","Q","R","S","T","U","V","W","X","Y","Z">>

LowerLetters ==
    <<"a","b","c","d","e","f","g","h","i","j","k","l","m",
      "n","o","p","q","r","s","t","u","v","w","x","y","z">>

Digits == {"0","1","2","3","4","5","6","7","8","9"}

Range(s) == {s[i] : i \in 1..Len(s)}

Letters == Range(UpperLetters) \cup Range(LowerLetters)

\* str.lower() on one ASCII character
LowerChar(c) ==
    IF \E i \in 1..Len(UpperLetters) : UpperLetters[i] = c
    THEN LowerLetters[CHOOSE i \in 1..Len(UpperLetters) : UpperLetters[i] = c]
    ELSE c

\* str.lower()
Lower(s) == [i \in 1..Len(s) |-> LowerChar(s[i])]

\* str.startswith(prefix)
StartsWith(s, prefix) ==
    /\ Len(s) >= Len(prefix)
    /\ \A i \in 1..Len(prefix) : s[i] = prefix[i]

HttpsScheme == <<"h","t","t","p","s",":","/","/">>
HttpScheme == <<"h","t","t","p",":","/","/">>

Prefixes ==
    { <<>>,
      HttpScheme,
      HttpsScheme,
      <<"H","T","T","P","S",":","/","/">>,
      <<"H","t","t","p",":","/","/">>,
      <<"f","t","p",":","/","/">>,
      <<"h","t","t","p",":","/">> }

Alphabet == {"/", ".", "a", "["}

Bodies == UNION {[1..n -> Alphabet] : n \in 0..MaxBody}

\* "http://secure-login-bank-update.com/verify?user=abc&token=123"
ScenarioUrl ==
    HttpScheme
    \o <<"s","e","c","u","r","e","-","l","o","g","i","n","-","b","a","n","k","-">>
    \o <<"u","p","d","a","t","e",".","c","o","m","/","v","e","r","i","f","y">>
    \o <<"?","u","s","e","r","=","a","b","c","&","t","o","k","e","n","=","1","2","3">>

\* "http://a.com//b//c"
RedirectUrl ==
    HttpScheme \o <<"a",".","c","o","m","/","/","b","/","/","c">>

Urls == {p \o b : p \in Prefixes, b \in Bodies} \cup {ScenarioUrl, RedirectUrl}

-----------------------------------------------------------------------------
(* Exceptions *)

NoExc == [type |-> "none", msg |-> "", names |-> <<>>]

ValueError(msg, names) == [type |-> "ValueError", msg |-> msg, names |-> names]

FileNotFoundError(msg, path) ==
    [type |-> "FileNotFoundError", msg |-> msg, names |-> <<path>>]

-----------------------------------------------------------------------------
(* src/features.py *)

FeatureNames ==
    {"url_length", "n_dots", "n_hypens", "n_underline", "n_slash",
     "n_questionmark", "n_equal", "n_at", "n_and", "n_exclamation", "n_space",
     "n_tilde", "n_comma", "n_plus", "n_asterisk", "n_hastag", "n_dollar",
     "n_percent", "n_redirection"}

Max(a, b) == IF a >= b THEN a ELSE b
Min(a, b) == IF a <= b THEN a ELSE b

\* Mutant of Count: reports presence instead of the number of occurrences.
CountPresence(s, c) == IF \E i \in 1..Len(s) : s[i] = c THEN 1 ELSE 0

\* str.count(c) for a one-character c
Count(s, c) == Cardinality({i \in 1..Len(s) : s[i] = c})

\* s.find(c, start) with 1-based positions; 0 when c does not occur
Find(s, c, start) ==
    IF \E i \in start..Len(s) : s[i] = c
    THEN CHOOSE i \in start..Len(s) :
             s[i] = c /\ \A j \in start..(i - 1) : s[j] # c
    ELSE 0

SchemeChars == Letters \cup Digits \cup {"+", "-", "."}

\* urllib.parse.urlsplit: the URL left after a leading "scheme:" is removed
AfterScheme(url) ==
    LET i == Find(url, ":", 1)
    IN  IF /\ i > 1
           /\ url[1] \in Letters
           /\ \A j \in 1..(i - 1) : url[j] \in SchemeChars
        THEN SubSeq(url, i + 1, Len(url))
        ELSE url

\* urllib.parse._splitnetloc(url, 2): the characters after the leading "//"
\* up to the first of "/", "?", "#"
SplitNetloc(rest) ==
    LET ends == {i \in 3..Len(rest) : rest[i] \in {"/", "?", "#"}}
        delim == IF ends = {} THEN Len(rest) + 1
                 ELSE CHOOSE i \in ends : \A j \in ends : i <= j
    IN  SubSeq(rest, 3, delim - 1)

\* urlparse(url) raises ValueError("Invalid IPv6 URL") when the network
\* location holds one of "[" and "]" without the other.
UrlparseRaises(url) ==
    LET rest == AfterScheme(url)
    IN  /\ StartsWith(rest, <<"/", "/">>)
        /\ LET netloc == Range(SplitNetloc(rest))
           IN  \/ "[" \in netloc /\ "]" \notin netloc
               \/ "]" \in netloc /\ "[" \notin netloc

\* Mutant of FindIter: counts overlapping matches.
RECURSIVE FindIterOverlap(_, _)
FindIterOverlap(s, i) ==
    IF i + 1 > Len(s) THEN <<>>
    ELSE IF s[i] = "/" /\ s[i + 1] = "/"
         THEN <<i - 1>> \o FindIterOverlap(s, i + 1)
         ELSE FindIterOverlap(s, i + 1)

\* [m.start() for m in re.finditer(r"//", s)] scanning from 1-based position i:
\* leftmost matches, each search resuming after the end of the previous match
RECURSIVE FindIter(_, _)
FindIter(s, i) ==
    IF i + 1 > Len(s) THEN <<>>
    ELSE IF s[i] = "/" /\ s[i + 1] = "/"
         THEN <<i - 1>> \o FindIter(s, i + 2)
         ELSE FindIter(s, i + 1)

\* max(0, len(double_slashes) - 1); float() of it keeps the value
NRedirection(s) == Max(0, Len(FindIter(s, 1)) - 1)

\* The dictionary extract_features builds
Features(s) ==
    [ url_length     |-> Len(s),
      n_dots         |-> Count(s, "."),
      n_hypens       |-> Count(s, "-"),
      n_underline    |-> Count(s, "_"),
      n_slash        |-> Count(s, "/"),
      n_questionmark |-> Count(s, "?"),
      n_equal        |-> Count(s, "="),
      n_at           |-> Count(s, "@"),
      n_and          |-> Count(s, "&"),
      n_exclamation  |-> Count(s, "!"),
      n_space        |-> Count(s, " "),
      n_tilde        |-> Count(s, "~"),
      n_comma        |-> Count(s, ","),
      n_plus         |-> Count(s, "+"),
      n_asterisk     |-> Count(s, "*"),
      n_hastag       |-> Count(s, "#"),
      n_dollar       |-> Count(s, "$"),
      n_percent      |-> Count(s, "%"),
      n_redirection  |-> NRedirection(s) ]

\* extract_features(url): [exc, val]; val is meaningful when nothing is raised
extract_features(url) ==
    IF UrlparseRaises(url)
    THEN [exc |-> ValueError("Invalid IPv6 URL", <<>>), val |-> <<>>]
    ELSE [exc |-> NoExc, val |-> Features(url)]

-----------------------------------------------------------------------------
(* Probabilities *)

One == 10 * ProbDen

\* Every score k / ProbDen the classifier can return
Scores == {10 * k : k \in 0..ProbDen}

\* The scores on the coarse grid
CoarseScores == {10 * (k * (ProbDen \div ProbSteps)) : k \in 0..ProbSteps}

\* round(x, 4) in units of 1/10000, ties to even; x is in units of 1/One
Round4(x) ==
    LET n == x * 1000
        q == n \div ProbDen
        r == n % ProbDen
    IN  IF 2 * r > ProbDen \/ (2 * r = ProbDen /\ q % 2 = 1) THEN q + 1 ELSE q

-----------------------------------------------------------------------------
(* src/inference.py *)

MODEL_PATH == "models/phishing_rf.pkl"
FEATURE_COLS_PATH == "models/feature_columns.pkl"

\* The column order the classifier was trained on
TrainingColumns ==
    <<"url_length", "n_dots", "n_hypens", "n_underline", "n_slash",
      "n_questionmark", "n_equal", "n_at", "n_and", "n_exclamation", "n_space",
      "n_tilde", "n_comma", "n_plus", "n_asterisk", "n_hastag", "n_dollar",
      "n_percent", "n_redirection">>

\* Names a stored column list is drawn from: two of the schema, two foreign
ColNames == {"url_length", "n_slash", "n_token", "n_digits"}

ColumnLists ==
    UNION {[1..n -> ColNames] : n \in 0..MaxCols} \cup {TrainingColumns}

\* SelectSeq with a predicate on the element
RECURSIVE Filter(_, _)
Filter(s, keep) ==
    IF s = <<>> THEN <<>>
    ELSE IF Head(s) \in keep THEN <<Head(s)>> \o Filter(Tail(s), keep)
         ELSE Filter(Tail(s), keep)

\* [col for col in feature_columns if col not in feats_dict]
MissingColumns(cols, feats) ==
    Filter(cols, Range(cols) \ DOMAIN feats)

\* pd.DataFrame([feats_dict])[feature_columns]: the single row as the
\* sequence of (column, value) pairs in the order of the column list
Reorder(cols, feats) ==
    [i \in 1..Len(cols) |-> <<cols[i], feats[cols[i]]>>]

\* build_feature_dataframe(url): [exc, df]
build_feature_dataframe(cols, url) ==
    LET e == extract_features(url)
    IN  IF e.exc # NoExc THEN [exc |-> e.exc, df |-> <<>>]
        ELSE LET missing == MissingColumns(cols, e.val)
             IN  IF missing # <<>>
                 THEN [exc |-> ValueError("Missing features in extract_features()",
                                          missing),
                       df |-> <<>>]
                 ELSE [exc |-> NoExc, df |-> Reorder(cols, e.val)]

\* predict_url(url); score is what model.predict_proba(df)[0][1] returns
predict_url(cols, url, score) ==
    LET b == build_feature_dataframe(cols, url)
    IN  IF b.exc # NoExc
        THEN [exc |-> b.exc, df |-> <<>>, scored |-> FALSE,
              label |-> -1, proba |-> -1]
        ELSE [exc |-> NoExc, df |-> b.df, scored |-> TRUE,
              label |-> IF 2 * score >= One THEN 1 ELSE 0,
              proba |-> score]

-----------------------------------------------------------------------------
(* api/app.py *)

\* Mutant of apply_protocol_rule: the scheme test is case-sensitive.
apply_protocol_rule_CaseSensitive(url, prob) ==
    IF StartsWith(url, HttpsScheme) THEN (prob * 4) \div 10
    ELSE IF StartsWith(url, HttpScheme) THEN Min((prob * 13) \div 10, One)
         ELSE prob

\* Mutant of apply_protocol_rule: the two factors are exchanged.
apply_protocol_rule_Swapped(url, prob) ==
    IF StartsWith(Lower(url), HttpsScheme) THEN Min((prob * 13) \div 10, One)
    ELSE IF StartsWith(Lower(url), HttpScheme) THEN (prob * 4) \div 10
         ELSE prob

apply_protocol_rule(url, prob) ==
    LET u == Lower(url)
    IN  IF StartsWith(u, HttpsScheme) THEN (prob * 4) \div 10
        ELSE IF StartsWith(u, HttpScheme) THEN Min((prob * 13) \div 10, One)
             ELSE prob

\* Mutant of FinalLabel: the classifier's own 0.5 cutoff.
FinalLabelHalf(final_prob) == IF 2 * final_prob >= One THEN 1 ELSE 0

\* 1 if final_prob >= 0.6 else 0
FinalLabel(final_prob) == IF 10 * final_prob >= 6 * One THEN 1 ELSE 0

NoReq ==
    [handled |-> FALSE, url |-> <<>>, exc |-> NoExc, df |-> <<>>,
     scored |-> FALSE, raw_label |-> -1, raw_prob |-> -1, final_prob |-> -1,
     status |-> 0, body |-> <<>>]

\* Mutant of predict: the final label is the one predict_url returned.
predict_RawLabel(cols, url, score) ==
    LET r == predict_url(cols, url, score)
        final_prob == apply_protocol_rule(url, r.proba)
    IN  IF r.exc # NoExc
        THEN [NoReq EXCEPT !.handled = TRUE, !.url = url, !.exc = r.exc,
                           !.status = 500]
        ELSE [handled |-> TRUE, url |-> url, exc |-> NoExc, df |-> r.df,
              scored |-> r.scored, raw_label |-> r.label, raw_prob |-> r.proba,
              final_prob |-> final_prob, status |-> 200,
              body |-> [url |-> url,
                        label |-> r.label,
                        prediction |-> IF r.label = 1 THEN "phishing"
                                       ELSE "legitimate",
                        probability_phishing |-> Round4(final_prob),
                        model_probability |-> Round4(r.proba)]]

\* predict(request): everything the handler computes for one request.  An
\* exception of predict_url is not caught: the request ends with status 500.
predict(cols, url, score) ==
    LET r == predict_url(cols, url, score)
        final_prob == apply_protocol_rule(url, r.proba)
        final_label == FinalLabel(final_prob)
    IN  IF r.exc # NoExc
        THEN [NoReq EXCEPT !.handled = TRUE, !.url = url, !.exc = r.exc,
                           !.status = 500]
        ELSE [handled |-> TRUE, url |-> url, exc |-> NoExc, df |-> r.df,
              scored |-> r.scored, raw_label |-> r.label, raw_prob |-> r.proba,
              final_prob |-> final_prob, status |-> 200,
              body |-> [url |-> url,
                        label |-> final_label,
                        prediction |-> IF final_label = 1 THEN "phishing"
                                       ELSE "legitimate",
                        probability_phishing |-> Round4(final_prob),
                        model_probability |-> Round4(r.proba)]]

-----------------------------------------------------------------------------
(* The service: module initialisation of src/inference.py, then requests *)

NoArg == <<>>
NoRet == [called |-> FALSE, exc |-> NoExc, val |-> <<>>]

\* URLs sent to /predict
ServiceUrls ==
    { HttpScheme \o <<"a">>,
      HttpsScheme \o <<"a">>,
      HttpScheme \o <<"[">>,
      <<"a", ".", "a">>,
      <<"/", "/", "/">>,
      RedirectUrl }

Init ==
    /\ model_present \in BOOLEAN
    /\ cols_present \in BOOLEAN
    /\ cols_file \in ColumnLists
    /\ pc = "boot"
    /\ model_loads = 0
    /\ cols_loads = 0
    /\ feature_columns = <<>>
    /\ startup_error = NoExc
    /\ req = NoReq
    /\ arg = NoArg
    /\ ret = NoRet

\* model = joblib.load(MODEL_PATH), FileNotFoundError re-raised with the path
LoadModel ==
    /\ pc = "boot"
    /\ model_loads' = model_loads + 1
    /\ IF model_present
       THEN pc' = "model_loaded" /\ UNCHANGED startup_error
       ELSE /\ pc' = "failed"
            /\ startup_error' = FileNotFoundError("Model file not found at", MODEL_PATH)
    /\ UNCHANGED <<model_present, cols_present, cols_file, cols_loads,
                   feature_columns, req, arg, ret>>

\* Mutant of LoadFeatureColumns: a missing file is tolerated and the service
\* starts with an empty column list.
LoadFeatureColumnsLenient ==
    /\ pc = "model_loaded"
    /\ cols_loads' = cols_loads + 1
    /\ pc' = "ready"
    /\ feature_columns' = IF cols_present THEN cols_file ELSE <<>>
    /\ UNCHANGED <<model_present, cols_present, cols_file, model_loads,
                   startup_error, req, arg, ret>>

\* feature_columns = joblib.load(FEATURE_COLS_PATH), likewise
LoadFeatureColumns ==
    /\ pc = "model_loaded"
    /\ cols_loads' = cols_loads + 1
    /\ IF cols_present
       THEN /\ pc' = "ready"
            /\ feature_columns' = cols_file
            /\ UNCHANGED startup_error
       ELSE /\ pc' = "failed"
            /\ startup_error' = FileNotFoundError("Feature columns file not found at",
                                                  FEATURE_COLS_PATH)
            /\ UNCHANGED feature_columns
    /\ UNCHANGED <<model_present, cols_present, cols_file, model_loads,
                   req, arg, ret>>

\* POST /predict, reachable only once api/app.py was imported, which imports
\* src/inference.py first
Predict ==
    /\ pc = "ready"
    /\ \E u \in ServiceUrls, score \in CoarseScores :
           req' = predict(feature_columns, u, score)
    /\ UNCHANGED <<model_present, cols_present, cols_file, pc, model_loads,
                   cols_loads, feature_columns, startup_error, arg, ret>>

Next == LoadModel \/ LoadFeatureColumns \/ Predict

Spec == Init /\ [][Next]_vars

\* Module initialisation runs to completion: no load is postponed for ever.
FairSpec == Spec /\ WF_vars(LoadModel) /\ WF_vars(LoadFeatureColumns)

-----------------------------------------------------------------------------
(* One request against the started service, every score of the fine grid *)

RequestUrls == {p \o <<"a">> : p \in Prefixes}

InitRequest ==
    /\ model_present = TRUE
    /\ cols_present = TRUE
    /\ cols_file = TrainingColumns
    /\ pc = "ready"
    /\ model_loads = 1
    /\ cols_loads = 1
    /\ feature_columns = TrainingColumns
    /\ startup_error = NoExc
    /\ req = NoReq
    /\ arg \in [url : RequestUrls, score : Scores]
    /\ ret = NoRet

\* POST /predict with the URL and the classifier score drawn initially
PredictArg ==
    /\ pc = "ready"
    /\ req' = predict(feature_columns, arg.url, arg.score)
    /\ UNCHANGED <<model_present, cols_present, cols_file, pc, model_loads,
                   cols_loads, feature_columns, startup_error, arg, ret>>

\* apply_protocol_rule(url, prob) called on its own
CallApplyProtocolRule ==
    /\ ret' = [called |-> TRUE, exc |-> NoExc,
               val |-> apply_protocol_rule(arg.url, arg.score)]
    /\ UNCHANGED <<service_vars, arg>>

NextRequest == PredictArg

SpecRequest == InitRequest /\ [][NextRequest]_vars

NextRule == CallApplyProtocolRule

SpecRule == InitRequest /\ [][NextRule]_vars

-----------------------------------------------------------------------------
(* extract_features called on its own *)

InitExtract ==
    /\ model_present = TRUE
    /\ cols_present = TRUE
    /\ cols_file = TrainingColumns
    /\ pc = "boot"
    /\ model_loads = 0
    /\ cols_loads = 0
    /\ feature_columns = <<>>
    /\ startup_error = NoExc
    /\ req = NoReq
    /\ arg \in Urls
    /\ ret = NoRet

CallExtractFeatures ==
    /\ LET e == extract_features(arg)
       IN  ret' = [called |-> TRUE, exc |-> e.exc, val |-> e.val]
    /\ UNCHANGED <<service_vars, arg>>

NextExtract == CallExtractFeatures

SpecExtract == InitExtract /\ [][NextExtract]_vars

-----------------------------------------------------------------------------
(* Properties *)

\* Case-insensitive scheme tests, written character by character
IsHttpsUrl(u) ==
    /\ Len(u) >= 8
    /\ u[1] \in {"h", "H"} /\ u[2] \in {"t", "T"} /\ u[3] \in {"t", "T"}
    /\ u[4] \in {"p", "P"} /\ u[5] \in {"s", "S"}
    /\ u[6] = ":" /\ u[7] = "/" /\ u[8] = "/"

IsHttpUrl(u) ==
    /\ Len(u) >= 7
    /\ u[1] \in {"h", "H"} /\ u[2] \in {"t", "T"} /\ u[3] \in {"t", "T"}
    /\ u[4] \in {"p", "P"}
    /\ u[5] = ":" /\ u[6] = "/" /\ u[7] = "/"

\* C1: apply_protocol_rule(u, p) is 0.4 p for an https URL, min(1.3 p, 1) for
\* an http URL and p for any other URL, the scheme compared without regard to
\* letter case.
C1_ProtocolRule ==
    ret.called =>
        LET u == arg.url
            p == arg.score
            f == ret.val
        IN  /\ IsHttpsUrl(u) => 10 * f = 4 * p
            /\ IsHttpUrl(u) => IF 13 * p >= 10 * One THEN f = One
                               ELSE 10 * f = 13 * p
            /\ ~IsHttpsUrl(u) /\ ~IsHttpUrl(u) => f = p

\* An upper-case HTTPS URL was adjusted like a lower-case one.
C1_Witness ==
    /\ ret.called
    /\ arg.url[1] = "H"
    /\ IsHttpsUrl(arg.url)
    /\ arg.score > 0
    /\ 10 * ret.val = 4 * arg.score

\* C2: the label of a response is 1 exactly when the adjusted probability is
\* at least 0.6; the label predict_url computed at 0.5 plays no part.
C2_FinalLabel ==
    req.status = 200 =>
        /\ req.body.label \in {0, 1}
        /\ req.body.label = 1 <=> 10 * req.final_prob >= 6 * One
        /\ req.body.prediction = "phishing" <=> req.body.label = 1

\* A response whose label differs from the label predict_url returned.
C2_Witness ==
    /\ req.status = 200
    /\ req.raw_label = 1
    /\ req.body.label = 0
    /\ 10 * req.final_prob < 6 * One
    /\ 2 * req.final_prob >= One

\* C9 as stated: the label is 1 exactly when the reported, rounded
\* probability_phishing is at least 0.6.
C9_LabelAgreesWithReported ==
    req.status = 200 =>
        (req.body.label = 1 <=> req.body.probability_phishing >= 6000)

\* C9 amended: the label is decided on the unrounded adjusted probability and
\* probability_phishing is that probability rounded to the nearest 1/10000,
\* so label 1 implies a reported value of at least 0.6 and a reported value
\* above 0.6 implies label 1; a reported 0.6 may carry either label.
C9_LabelAndReported ==
    req.status = 200 =>
        LET rep == req.body.probability_phishing
            d == req.final_prob * 1000 - rep * ProbDen
        IN  /\ 2 * d <= ProbDen /\ 2 * d >= -ProbDen
            /\ req.body.label = 1 => rep >= 6000
            /\ rep > 6000 => req.body.label = 1
            /\ rep < 6000 => req.body.label = 0

\* A response reporting 0.6 with label 0.
C9_Witness ==
    /\ req.status = 200
    /\ req.body.probability_phishing = 6000
    /\ req.body.label = 0

AbsentColumns == Range(feature_columns) \ FeatureNames

\* C3 as stated: whenever the column list holds a name the extractor does not
\* produce, the request fails with the missing-features error listing exactly
\* the absent columns, no frame is built, the classifier is not scored and the
\* error reaches the caller.
C3_MissingFeaturesError ==
    req.handled /\ AbsentColumns # {} =>
        /\ req.exc.type = "ValueError"
        /\ req.exc.msg = "Missing features in extract_features()"
        /\ Range(req.exc.names) = AbsentColumns
        /\ req.df = <<>>
        /\ ~req.scored
        /\ req.status = 500

\* C4 as stated: whenever every column of the list is produced by the
\* extractor, the frame is one row holding, at each position, the extracted
\* value of the column at that position of the list.
C4_FrameInColumnOrder ==
    req.handled /\ AbsentColumns = {} =>
        /\ req.exc = NoExc
        /\ Len(req.df) = Len(feature_columns)
        /\ \A i \in 1..Len(feature_columns) :
               req.df[i] = <<feature_columns[i],
                             Features(req.url)[feature_columns[i]]>>

\* What holds in every state of the service for C5
C5_Inv ==
    /\ model_loads <= 1 /\ cols_loads <= 1
    /\ pc = "ready" => model_present /\ cols_present
    /\ pc = "failed" =>
           /\ startup_error.type = "FileNotFoundError"
           /\ startup_error.names =
                  IF ~model_present THEN <<MODEL_PATH>> ELSE <<FEATURE_COLS_PATH>>
           /\ ~(model_present /\ cols_present)
    /\ req.handled =>
           /\ pc = "ready"
           /\ model_loads = 1 /\ cols_loads = 1
           /\ feature_columns = cols_file

\* What holds of every step of the service for C5
C5_Step ==
    /\ pc = "failed" =>
           /\ pc' = "failed"
           /\ model_loads' = model_loads /\ cols_loads' = cols_loads
           /\ req' = NoReq
    /\ req'.handled /\ ~req.handled => pc = "ready"

\* C5: with an artifact absent, initialisation ends in the failed state with a
\* FileNotFoundError naming the absent artifact's path, no load is repeated
\* and no request is ever handled; a request is handled only after both
\* artifacts were loaded, each once.
C5_StartupFailFast ==
    /\ []C5_Inv
    /\ [][C5_Step]_vars
    /\ (~model_present \/ ~cols_present) ~> (pc = "failed")

\* Initialisation failed on the column list, the model having loaded.
C5_Witness ==
    /\ pc = "failed"
    /\ model_present /\ ~cols_present
    /\ model_loads = 1 /\ cols_loads = 1
    /\ startup_error.names = <<FEATURE_COLS_PATH>>
    /\ ~req.handled

\* C6 as stated: extract_features returns for every URL, and returns a
\* mapping over the fixed schema with non-negative values.
C6_TotalFixedSchema ==
    ret.called =>
        /\ ret.exc = NoExc
        /\ DOMAIN ret.val = FeatureNames
        /\ \A k \in FeatureNames : ret.val[k] >= 0

\* Number of leftmost non-overlapping "//": a pair of slashes at i counts
\* when an even number of slashes immediately precedes it
SlashRunBefore(s, i) ==
    LET stops == {j \in 1..(i - 1) : s[j] # "/"}
        last == IF stops = {} THEN 0 ELSE CHOOSE j \in stops : \A k \in stops : k <= j
    IN  i - 1 - last

NonOverlappingPairs(s) ==
    Cardinality({i \in 1..(Len(s) - 1) :
                     /\ s[i] = "/" /\ s[i + 1] = "/"
                     /\ SlashRunBefore(s, i) % 2 = 0})

\* Number of positions i with s[i] = s[i+1] = "/"
OverlappingPairs(s) ==
    Cardinality({i \in 1..(Len(s) - 1) : s[i] = "/" /\ s[i + 1] = "/"})

\* C7 as stated: n_redirection is max(0, k - 1) with k the overlapping count.
C7_RedirectionOverlapping ==
    ret.called /\ ret.exc = NoExc =>
        ret.val.n_redirection = Max(0, OverlappingPairs(arg) - 1)

\* C7 amended: n_redirection is max(0, k - 1) with k the number of
\* non-overlapping occurrences of "//" found scanning left to right.
C7_RedirectionNonOverlapping ==
    ret.called /\ ret.exc = NoExc =>
        ret.val.n_redirection = Max(0, NonOverlappingPairs(arg) - 1)

\* A URL with a run of three slashes or more, where the two counts differ.
C7_Witness ==
    /\ ret.called /\ ret.exc = NoExc
    /\ OverlappingPairs(arg) > NonOverlappingPairs(arg)
    /\ ret.val.n_redirection >= 1

\* The counts of the scenario URL other than its length
ScenarioCounts ==
    /\ ret.exc = NoExc
    /\ ret.val.n_and = 1
    /\ ret.val.n_equal = 2
    /\ ret.val.n_questionmark = 1
    /\ ret.val.n_hypens = 3
    /\ ret.val.n_dots = 1

\* C8 as stated: the scenario URL has the listed counts and url_length 63.
C8_ScenarioLength63 ==
    ret.called /\ arg = ScenarioUrl =>
        ScenarioCounts /\ ret.val.url_length = 63

\* C8 amended: the scenario URL has the listed counts and url_length 61, the
\* number of characters of the literal string.
C8_ScenarioLength61 ==
    ret.called /\ arg = ScenarioUrl =>
        ScenarioCounts /\ ret.val.url_length = 61

\* extract_features returned for the scenario URL.
C8_Witness ==
    /\ ret.called
    /\ arg = ScenarioUrl
    /\ ret.exc = NoExc
    /\ ret.val.n_slash = 3

=============================================================================
